---- MODULE Spec2Model ----
(***************************************************************************)
(* Inventory & procurement backend: the Express routes (auth, users,       *)
(* items, warehouses), the authorization middleware chain, the token       *)
(* service and the stock ledger, over the relational store of the          *)
(* migration.  Every `await` on the store is a scheduling point: a handler *)
(* is a sequence of atomic steps, one per store call, and the handlers of  *)
(* different requests interleave between these steps.                      *)
(***************************************************************************)
EXTENDS Integers, Sequences, FiniteSets, TLC

VARIABLES
    users,        \* table User: id -> row
    categories,   \* table ItemCategory: id -> row
    items,        \* table Item: id -> row
    warehouses,   \* table Warehouse: id -> row
    stockLevels,  \* table StockLevel: <<itemId, warehouseId>> -> row
    movements,    \* table StockMovement, in insertion order
    issued,       \* tokens returned by successful logins (held by clients)
    now,          \* server clock, in token-lifetime units
    req,          \* in-flight requests: slot -> handler position and locals
    last,         \* the response on its way to the client, if any
    nreq,         \* create, patch and change-password requests admitted so far
    faults        \* store calls that have thrown so far

vars == <<users, categories, items, warehouses, stockLevels, movements,
          issued, now, req, last, nreq, faults>>

store == <<users, categories, items, warehouses, stockLevels, movements>>

(***************************************************************************)
(* Bounds of the model.                                                    *)
(***************************************************************************)
MaxSlots == 2
MaxRequests == 2
MaxOpening == 2
MaxTokens == 3
MaxTime == 1
MaxFaults == 1
MaxUsers == 3
MaxDrawn == 4
JwtLifetime == 1

Slots == 1..MaxSlots
UserIds == 1..MaxUsers

(***************************************************************************)
(* Characters, passwords and e-mail addresses are sequences of one-        *)
(* character strings.                                                      *)
(***************************************************************************)
UpperChars == {"A","B","C","D","E","F","G","H","I","J","K","L","M",
               "N","O","P","Q","R","S","T","U","V","W","X","Y","Z"}
LowerChars == {"a","b","c","d","e","f","g","h","i","j","k","l","m",
               "n","o","p","q","r","s","t","u","v","w","x","y","z"}
DigitChars == {"0","1","2","3","4","5","6","7","8","9"}
SpecialChars == {"!","@","#","$","%","^","&","*","(",")",",",".","?",
                 "\"",":","{","}","|","<",">"}
SpaceChars == {" ", "\t", "\n"}

Has(s, class) == \E i \in 1..Len(s) : s[i] \in class

MIN_PASSWORD_LENGTH == 8

NoViolation == "null"

\* the rules with the digit rule tested ahead of the lowercase rule
validatePasswordStrengthDigitFirst(password) ==
    IF Len(password) < MIN_PASSWORD_LENGTH
      THEN "Password must be at least 8 characters long."
    ELSE IF ~Has(password, UpperChars)
      THEN "Password must contain at least one uppercase letter."
    ELSE IF ~Has(password, DigitChars)
      THEN "Password must contain at least one digit."
    ELSE IF ~Has(password, LowerChars)
      THEN "Password must contain at least one lowercase letter."
    ELSE IF ~Has(password, SpecialChars)
      THEN "Password must contain at least one special character."
    ELSE NoViolation

validatePasswordStrength(password) ==
    IF Len(password) < MIN_PASSWORD_LENGTH
      THEN "Password must be at least 8 characters long."
    ELSE IF ~Has(password, UpperChars)
      THEN "Password must contain at least one uppercase letter."
    ELSE IF ~Has(password, LowerChars)
      THEN "Password must contain at least one lowercase letter."
    ELSE IF ~Has(password, DigitChars)
      THEN "Password must contain at least one digit."
    ELSE IF ~Has(password, SpecialChars)
      THEN "Password must contain at least one special character."
    ELSE NoViolation

SALT_ROUNDS == 10

\* bcrypt.hash: a digest from which the plain text is not read back; the
\* random salt does not influence bcrypt.compare and is left out.
hashPassword(plain) == [alg |-> "bcrypt", rounds |-> SALT_ROUNDS, of |-> plain]

verifyPassword(plain, hash) == hash.alg = "bcrypt" /\ hash.of = plain

RECURSIVE TrimLeft(_)
TrimLeft(s) ==
    IF s # <<>> /\ Head(s) \in SpaceChars THEN TrimLeft(Tail(s)) ELSE s

RECURSIVE TrimRight(_)
TrimRight(s) ==
    IF s # <<>> /\ s[Len(s)] \in SpaceChars
      THEN TrimRight(SubSeq(s, 1, Len(s) - 1)) ELSE s

\* /^[^\s@]+@[^\s@]+\.[^\s@]+$/ on the trimmed address
isValidEmail(email) ==
    LET t == TrimRight(TrimLeft(email))
        n == Len(t)
    IN \E i \in 1..n : \E j \in 1..n :
          /\ 1 < i /\ i + 1 < j /\ j < n
          /\ t[i] = "@" /\ t[j] = "."
          /\ \A k \in (1..n) \ {i} : t[k] \notin SpaceChars \cup {"@"}

\* Candidate draws of the sampling loop of generateTempPassword: strings
\* over its alphabet; the loop returns the first draw the validator accepts.
TempAlphabet == UpperChars \cup LowerChars \cup DigitChars \cup
                {"!","@","#","$","%","^","&","*","(",")","_","+"}

TempDraws ==
    { <<"T","e","m","p","7","#","a","b","c","d","e","f","g","h">>,
      <<"T","e","m","p","7","_","a","b","c","d","e","f","g","h">>,
      <<"t","e","m","p","7","#","a","b","c","d","e","f","g","h">> }

generateTempPassword(length) ==
    { p \in TempDraws :
        /\ Len(p) = length
        /\ \A i \in 1..Len(p) : p[i] \in TempAlphabet
        /\ validatePasswordStrength(p) = NoViolation }

TEMP_PASSWORD_LENGTH == 14

(***************************************************************************)
(* Token service.                                                          *)
(***************************************************************************)
JWT_SECRET == "dev-secret-change-me"

\* the signature of a token: a function of the claims, the expiry and the
\* key, different for different contents or keys
HS256(sub, role, mustChangePassword, exp, secret) ==
    [sub |-> sub, role |-> role, mustChangePassword |-> mustChangePassword,
     exp |-> exp, key |-> secret]

\* a token that does not carry the rotation flag of the payload
signJwtWithoutFlag(payload, t) ==
    [sub |-> payload.sub, role |-> payload.role,
     mustChangePassword |-> FALSE,
     exp |-> t + JwtLifetime,
     sig |-> HS256(payload.sub, payload.role, FALSE, t + JwtLifetime,
                   JWT_SECRET)]

signJwt(payload, t) ==
    [sub |-> payload.sub, role |-> payload.role,
     mustChangePassword |-> payload.mustChangePassword,
     exp |-> t + JwtLifetime,
     sig |-> HS256(payload.sub, payload.role, payload.mustChangePassword,
                   t + JwtLifetime, JWT_SECRET)]

\* jwt.verify without the test of the expiry
verifyJwtIgnoresExpiry(token, t) ==
    IF token.sig = HS256(token.sub, token.role, token.mustChangePassword,
                         token.exp, JWT_SECRET)
      THEN << [sub |-> token.sub, role |-> token.role,
               mustChangePassword |-> token.mustChangePassword] >>
      ELSE << >>

\* jwt.verify: <<payload>> when the signature matches and the token has
\* not expired, <<>> when it throws.
verifyJwt(token, t) ==
    IF /\ token.sig = HS256(token.sub, token.role, token.mustChangePassword,
                            token.exp, JWT_SECRET)
       /\ t < token.exp
      THEN << [sub |-> token.sub, role |-> token.role,
               mustChangePassword |-> token.mustChangePassword] >>
      ELSE << >>

(***************************************************************************)
(* Authorization middleware.  A request context carries req.user (empty    *)
(* until authMiddleware fills it), the response once one is sent, and the  *)
(* middleware functions that have run.                                     *)
(***************************************************************************)
NoResponse == [status |-> 0, error |-> ""]

Respond(status, error) == [status |-> status, error |-> error]

NewContext == [user |-> << >>, resp |-> NoResponse, guards |-> << >>]

NoHeader == [kind |-> "none", token |-> << >>]
BasicHeader == [kind |-> "basic", token |-> << >>]
Bearer(token) == [kind |-> "bearer", token |-> <<token>>]

\* req.user filled from the current user record of the token's subject
authMiddlewareFromStore(c, hdr, t) ==
    LET c1 == [c EXCEPT !.guards = Append(@, "authMiddleware")]
    IN IF hdr.kind # "bearer"
         THEN [c1 EXCEPT !.resp =
                 Respond(401, "Missing or invalid Authorization header.")]
         ELSE LET payload == verifyJwt(hdr.token[1], t)
              IN IF payload = << >>
                   THEN [c1 EXCEPT !.resp =
                           Respond(401, "Invalid or expired token.")]
                   ELSE [c1 EXCEPT !.user =
                           << [id |-> payload[1].sub,
                               role |-> users[payload[1].sub].role,
                               mustChangePassword |->
                                   users[payload[1].sub].mustChangePassword] >>]

authMiddleware(c, hdr, t) ==
    LET c1 == [c EXCEPT !.guards = Append(@, "authMiddleware")]
    IN IF hdr.kind # "bearer"
         THEN [c1 EXCEPT !.resp =
                 Respond(401, "Missing or invalid Authorization header.")]
         ELSE LET payload == verifyJwt(hdr.token[1], t)
              IN IF payload = << >>
                   THEN [c1 EXCEPT !.resp =
                           Respond(401, "Invalid or expired token.")]
                   ELSE [c1 EXCEPT !.user =
                           << [id |-> payload[1].sub,
                               role |-> payload[1].role,
                               mustChangePassword |->
                                   payload[1].mustChangePassword] >>]

requireAuth(c) ==
    LET c1 == [c EXCEPT !.guards = Append(@, "requireAuth")]
    IN IF c.user = << >>
         THEN [c1 EXCEPT !.resp = Respond(401, "Authentication required.")]
         ELSE c1

\* the role check without its test of the role
requireRoleAny(c, roles) ==
    LET c1 == [c EXCEPT !.guards = Append(@, "requireRole")]
    IN IF c.user = << >>
         THEN [c1 EXCEPT !.resp = Respond(401, "Authentication required.")]
         ELSE c1

requireRole(c, roles) ==
    LET c1 == [c EXCEPT !.guards = Append(@, "requireRole")]
    IN IF c.user = << >>
         THEN [c1 EXCEPT !.resp = Respond(401, "Authentication required.")]
       ELSE IF c.user[1].role \notin roles
         THEN [c1 EXCEPT !.resp =
                 Respond(403, "You do not have permission to perform this action.")]
       ELSE c1

\* the rotation check without its test of the flag
requireNonFirstLoginLax(c) ==
    LET c1 == [c EXCEPT !.guards = Append(@, "requireNonFirstLogin")]
    IN IF c.user = << >>
         THEN [c1 EXCEPT !.resp = Respond(401, "Authentication required.")]
         ELSE c1

requireNonFirstLogin(c) ==
    LET c1 == [c EXCEPT !.guards = Append(@, "requireNonFirstLogin")]
    IN IF c.user = << >>
         THEN [c1 EXCEPT !.resp = Respond(401, "Authentication required.")]
       ELSE IF c.user[1].mustChangePassword
         THEN [c1 EXCEPT !.resp =
                 Respond(403, "You must change your password before accessing this resource.")]
       ELSE c1

(***************************************************************************)
(* Routes and the middleware each route installs, in installation order.   *)
(***************************************************************************)
ALLOWED_ROLES == {"ADMIN", "FINANCE", "PROCUREMENT", "STOREKEEPER",
                  "DEPARTMENT_MANAGER", "STAFF"}

INVENTORY_ROLES == {"ADMIN", "STOREKEEPER", "PROCUREMENT"}

ADMIN_ONLY == {"ADMIN"}

AuthRoutes == {"GET /api/auth/me", "POST /api/auth/change-password"}

UserRoutes == {"POST /api/users", "GET /api/users", "GET /api/users/:id",
               "PATCH /api/users/:id"}

ItemRoutes == {"POST /api/items/categories", "GET /api/items/categories",
               "POST /api/items", "GET /api/items"}

WarehouseRoutes == {"POST /api/warehouses", "GET /api/warehouses",
                    "POST /api/warehouses/opening-stock",
                    "GET /api/warehouses/stock"}

ProtectedRoutes == AuthRoutes \cup UserRoutes \cup ItemRoutes \cup WarehouseRoutes

FullChain == <<"authMiddleware", "requireAuth", "requireNonFirstLogin",
               "requireRole">>

\* the role check installed ahead of the rotation check
ChainRoleFirst(route) ==
    IF route \in AuthRoutes THEN <<"authMiddleware", "requireAuth">>
    ELSE IF route \in ProtectedRoutes
      THEN <<"authMiddleware", "requireAuth", "requireRole",
             "requireNonFirstLogin">>
    ELSE << >>

Chain(route) ==
    IF route \in AuthRoutes THEN <<"authMiddleware", "requireAuth">>
    ELSE IF route \in ProtectedRoutes THEN FullChain
    ELSE << >>

RouteRoles(route) ==
    IF route \in UserRoutes THEN ADMIN_ONLY
    ELSE IF route \in ItemRoutes \cup WarehouseRoutes THEN INVENTORY_ROLES
    ELSE ALLOWED_ROLES

RunGuard(g, c, hdr, t, roles) ==
    CASE g = "authMiddleware" -> authMiddleware(c, hdr, t)
      [] g = "requireAuth" -> requireAuth(c)
      [] g = "requireNonFirstLogin" -> requireNonFirstLogin(c)
      [] g = "requireRole" -> requireRole(c, roles)

\* Express runs the next middleware only when the previous one called next().
RECURSIVE RunChain(_, _, _, _, _)
RunChain(chain, c, hdr, t, roles) ==
    IF chain = << >> THEN c
    ELSE LET c1 == RunGuard(Head(chain), c, hdr, t, roles)
         IN IF c1.resp # NoResponse THEN c1
            ELSE RunChain(Tail(chain), c1, hdr, t, roles)

Gate(route, hdr, t) == RunChain(Chain(route), NewContext, hdr, t, RouteRoles(route))

\* errorHandler: the response for an error passed to next(err) or thrown.
errorHandler(err) ==
    Respond(IF err.statusCode # 0 THEN err.statusCode ELSE 500,
            IF err.message # "" THEN err.message
            ELSE "An unexpected error occurred. Please try again later")

(***************************************************************************)
(* Request inputs.                                                         *)
(***************************************************************************)
AdminEmail == <<"a","@","x",".","y">>
StaffEmail == <<"b","@","x",".","y">>
BadEmail == <<"b","@","x">>

AdminPassword == <<"A","d","m","1","n","!","o","k">>
NewPassword == <<"N","e","w","P","4","$","s","x">>
WeakPassword == <<"w","e","a","k">>

EmailInputs == {AdminEmail, StaffEmail, BadEmail}
PasswordInputs == {AdminPassword, NewPassword, WeakPassword}
                    \cup generateTempPassword(TEMP_PASSWORD_LENGTH)
NewPasswordInputs == {NewPassword, WeakPassword, << >>}
RoleInputs == {"STOREKEEPER", "BOGUS"}

ForgedToken == [sub |-> 1, role |-> "ADMIN", mustChangePassword |-> FALSE,
                exp |-> MaxTime + 1,
                sig |-> HS256(1, "ADMIN", FALSE, MaxTime + 1, "forged")]

\* issued tokens with one part altered: a claim or the expiry rewritten
\* under the old signature, or the signature replaced; what verifyJwt
\* makes of them is what the middleware makes of ForgedToken
AlteredTokens ==
    UNION { { [tok EXCEPT !.role = "ADMIN"], [tok EXCEPT !.role = "STAFF"],
              [tok EXCEPT !.mustChangePassword = ~@],
              [tok EXCEPT !.sub = @ + 1],
              [tok EXCEPT !.exp = @ + 1],
              [tok EXCEPT !.sig.key = "forged"] } : tok \in issued } \ issued

Headers == {NoHeader, BasicHeader, Bearer(ForgedToken)}
             \cup {Bearer(t) : t \in issued}

NoBody == [none |-> TRUE]

(***************************************************************************)
(* Store access.                                                           *)
(***************************************************************************)
NoDate == -1

\* prisma.<table>.findUnique: <<row>> or <<>>
FindById(table, id) == IF id \in DOMAIN table THEN <<table[id]>> ELSE << >>

FindUserByEmail(email) ==
    IF \E id \in DOMAIN users : users[id].email = email
      THEN << users[CHOOSE id \in DOMAIN users : users[id].email = email] >>
      ELSE << >>

\* the id the store gives a new row: the first of the pool not yet in use
\* (no id when the pool is used up)
FreshIds(table, pool) ==
    { pool[k] : k \in { k \in 1..Len(pool) :
                          /\ pool[k] \notin DOMAIN table
                          /\ \A j \in 1..(k - 1) : pool[j] \in DOMAIN table } }

UserIdPool == [k \in 1..MaxUsers |-> k]
CategoryIdPool == <<"c1", "c2", "c3">>
ItemIdPool == <<"i1", "i2", "i3", "i4">>
WarehouseIdPool == <<"w1", "w2", "w3", "w4">>

\* a store call that throws: a unique index refuses the row, or the store
\* fails; the rejected promise of the handler reaches errorHandler
UniqueViolation == [message |-> "Unique constraint failed", statusCode |-> 0]
StoreFailure == [message |-> "Can't reach database server", statusCode |-> 0]

\* a table without its unique index
NoUniqueIndex(table, key, value) == FALSE

\* the unique index of a table on a column: an insert of a row whose value
\* in that column is already held by a row is refused
UniqueIndexRefuses(table, key, value) ==
    \E id \in DOMAIN table : table[id][key] = value

(***************************************************************************)
(* Request slots.                                                          *)
(***************************************************************************)
Idle == [route |-> "idle", pc |-> "idle", body |-> NoBody,
         user |-> << >>, guards |-> << >>, snap |-> << >>, local |-> << >>]

\* Responses are observed one at a time: the response of an answered
\* request is handed to its client before the next step of any handler.
NoAnswer == [route |-> "none", body |-> NoBody, user |-> << >>,
             guards |-> << >>, handler |-> FALSE, status |-> 0, error |-> "",
             token |-> << >>, mail |-> "none"]

Quiet == last = NoAnswer

FreeSlot(r) ==
    /\ req[r].pc = "idle"
    /\ \A q \in Slots : q < r => req[q].pc # "idle"

\* what the client of an answered request sees, with what the middleware
\* chain had done: req.user, the middleware run, whether the route handler
\* was entered
Completed(route, body, c, handler, resp, token) ==
    [route |-> route, body |-> body, user |-> c.user,
     guards |-> c.guards, handler |-> handler,
     status |-> resp.status, error |-> resp.error, token |-> token,
     mail |-> "none"]

\* a request answered in the step that began it, writing nothing
Answer(route, body, c, handler, resp) ==
    /\ last' = Completed(route, body, c, handler, resp, << >>)
    /\ UNCHANGED <<store, issued, now, req, nreq, faults>>

\* a request whose handler awaits its next store call
Await(r, route, body, c, pc, snap, local, cost) ==
    /\ nreq + cost <= MaxRequests
    /\ nreq' = nreq + cost
    /\ req' = [req EXCEPT ![r] =
                 [route |-> route, pc |-> pc, body |-> body,
                  user |-> c.user, guards |-> c.guards, snap |-> snap,
                  local |-> local]]
    /\ UNCHANGED <<store, issued, now, last, faults>>

SlotContext(r) == [user |-> req[r].user, guards |-> req[r].guards,
                   resp |-> NoResponse]

Finish(r, resp, token) ==
    /\ last' = Completed(req[r].route, req[r].body, SlotContext(r), TRUE,
                         resp, token)
    /\ req' = [req EXCEPT ![r] = Idle]

Ok(status) == Respond(status, "")

(***************************************************************************)
(* The store after the migration and the seed: the bootstrap               *)
(* administrator, and catalogue rows of which one item and one warehouse   *)
(* have been deactivated.                                                  *)
(***************************************************************************)
SeedAdmin ==
    [id |-> 1, email |-> AdminEmail, fullName |-> "System Administrator",
     password |-> hashPassword(AdminPassword),
     role |-> "ADMIN", department |-> "Management", isActive |-> TRUE,
     mustChangePassword |-> FALSE, canChangePassword |-> FALSE,
     lastLoginAt |-> NoDate]

Init ==
    /\ users = (1 :> SeedAdmin)
    /\ categories = ("c1" :> [id |-> "c1", name |-> "Stationery", isActive |-> TRUE])
    /\ items = ("i1" :> [id |-> "i1", name |-> "Pen", sku |-> "", unit |-> "pcs",
                          categoryId |-> "c1", isActive |-> TRUE])
               @@ ("i2" :> [id |-> "i2", name |-> "Ink", sku |-> "INK", unit |-> "pcs",
                            categoryId |-> "c1", isActive |-> FALSE])
    /\ warehouses = ("w1" :> [id |-> "w1", name |-> "Main", code |-> "MAIN",
                               isActive |-> TRUE])
                    @@ ("w2" :> [id |-> "w2", name |-> "Old", code |-> "OLD",
                                 isActive |-> FALSE])
    /\ stockLevels = << >>
    /\ movements = << >>
    /\ issued = {}
    /\ now = 0
    /\ req = [r \in Slots |-> Idle]
    /\ last = NoAnswer
    /\ nreq = 0
    /\ faults = 0

(***************************************************************************)
(* POST /api/auth/login                                                    *)
(***************************************************************************)
\* tokens issued, and logins on their way to issuing one
LoginsBegun ==
    Cardinality(issued)
      + Cardinality({r \in Slots : req[r].route = "POST /api/auth/login"})

\* a login that tells an inactive account from unknown credentials
LoginFailureTellsInactive(user, password) ==
    IF user = << >>
      THEN Respond(401, "Invalid credentials.")
    ELSE IF ~user[1].isActive
      THEN Respond(403, "Account is inactive.")
    ELSE IF ~verifyPassword(password, user[1].password)
      THEN Respond(401, "Invalid credentials.")
    ELSE NoResponse

\* the response to a login whose user lookup or password check fails
LoginFailure(user, password) ==
    IF user = << >> \/ ~user[1].isActive
      THEN Respond(401, "Invalid credentials.")
    ELSE IF ~verifyPassword(password, user[1].password)
      THEN Respond(401, "Invalid credentials.")
    ELSE NoResponse

LoginBegin(r) ==
    /\ Quiet
    /\ FreeSlot(r)
    /\ \E email \in EmailInputs, password \in PasswordInputs :
         LET route == "POST /api/auth/login"
             body == [email |-> email, password |-> password]
             c == NewContext
             user == FindUserByEmail(email)
         IN IF email = << >> \/ password = << >>
              THEN Answer(route, body, c, TRUE,
                          Respond(400, "Email and password are required."))
            ELSE IF ~isValidEmail(email)
              THEN Answer(route, body, c, TRUE,
                          Respond(400, "Invalid email format."))
            ELSE IF LoginFailure(user, password) # NoResponse
              THEN Answer(route, body, c, TRUE, LoginFailure(user, password))
            ELSE /\ LoginsBegun < MaxTokens
                 /\ Await(r, route, NoBody, c, "login_update", user, << >>, 0)

\* the login writing back the whole record it read
LoginUpdateWritesSnapshot(r) ==
    /\ Quiet
    /\ req[r].pc = "login_update"
    /\ LET user == req[r].snap[1]
           token == signJwt([sub |-> user.id, role |-> user.role,
                             mustChangePassword |-> user.mustChangePassword], now)
       IN /\ users' = [users EXCEPT ![user.id] =
                         [user EXCEPT !.lastLoginAt = now]]
          /\ issued' = issued \cup {token}
          /\ Finish(r, Ok(200), <<token>>)
    /\ UNCHANGED <<categories, items, warehouses, stockLevels, movements,
                   now, nreq, faults>>

LoginUpdate(r) ==
    /\ Quiet
    /\ req[r].pc = "login_update"
    /\ LET user == req[r].snap[1]
           token == signJwt([sub |-> user.id, role |-> user.role,
                             mustChangePassword |-> user.mustChangePassword], now)
       IN /\ users' = [users EXCEPT ![user.id].lastLoginAt = now]
          /\ issued' = issued \cup {token}
          /\ Finish(r, Ok(200), <<token>>)
    /\ UNCHANGED <<categories, items, warehouses, stockLevels, movements,
                   now, nreq, faults>>

(***************************************************************************)
(* GET /api/auth/me                                                        *)
(***************************************************************************)
Me(r) ==
    /\ Quiet
    /\ FreeSlot(r)
    /\ \E hdr \in Headers :
         LET route == "GET /api/auth/me"
             c == Gate(route, hdr, now)
         IN IF c.resp # NoResponse
              THEN Answer(route, NoBody, c, FALSE, c.resp)
            ELSE IF FindById(users, c.user[1].id) = << >>
              THEN Answer(route, NoBody, c, TRUE, Respond(404, "User not found."))
            ELSE Answer(route, NoBody, c, TRUE, Ok(200))

(***************************************************************************)
(* POST /api/auth/change-password                                          *)
(***************************************************************************)
\* the checks without the test of canChangePassword
ChangePasswordRejectionAnyAccount(user, body) ==
    IF ~verifyPassword(body.currentPassword, user.password)
      THEN Respond(400, "Current password is incorrect.")
    ELSE IF validatePasswordStrength(body.newPassword) # NoViolation
      THEN Respond(400, validatePasswordStrength(body.newPassword))
    ELSE NoResponse

\* the three checks with the strength of the new password tested first
ChangePasswordRejectionStrengthFirst(user, body) ==
    IF validatePasswordStrength(body.newPassword) # NoViolation
      THEN Respond(400, validatePasswordStrength(body.newPassword))
    ELSE IF ~user.canChangePassword
      THEN Respond(403, "This account is not allowed to change password.")
    ELSE IF ~verifyPassword(body.currentPassword, user.password)
      THEN Respond(400, "Current password is incorrect.")
    ELSE NoResponse

\* the three checks of change-password on the user record it read, in the
\* order of the handler: the response of the first that fails
ChangePasswordRejection(user, body) ==
    IF ~user.canChangePassword
      THEN Respond(403, "This account is not allowed to change password.")
    ELSE IF ~verifyPassword(body.currentPassword, user.password)
      THEN Respond(400, "Current password is incorrect.")
    ELSE IF validatePasswordStrength(body.newPassword) # NoViolation
      THEN Respond(400, validatePasswordStrength(body.newPassword))
    ELSE NoResponse

ChangePasswordBegin(r) ==
    /\ Quiet
    /\ FreeSlot(r)
    /\ \E hdr \in Headers :
         LET route == "POST /api/auth/change-password"
             c == Gate(route, hdr, now)
         IN IF c.resp # NoResponse
              THEN Answer(route, NoBody, c, FALSE, c.resp)
            ELSE \E currentPassword \in PasswordInputs,
                    newPassword \in NewPasswordInputs :
              LET body == [currentPassword |-> currentPassword,
                           newPassword |-> newPassword]
                  user == FindById(users, c.user[1].id)
              IN IF currentPassword = << >> \/ newPassword = << >>
                   THEN Answer(route, body, c, TRUE,
                          Respond(400, "Current password and new password are required."))
                 ELSE IF user = << >>
                   THEN Answer(route, body, c, TRUE,
                          Respond(404, "User not found."))
                 ELSE IF ChangePasswordRejection(user[1], body) # NoResponse
                   THEN Answer(route, body, c, TRUE,
                               ChangePasswordRejection(user[1], body))
                 ELSE Await(r, route, body, c, "cp_update", user,
                            <<hashPassword(newPassword)>>, 1)

\* the update without the reset of the rotation flag
ChangePasswordUpdateKeepsFlag(r) ==
    /\ Quiet
    /\ req[r].pc = "cp_update"
    /\ users' = [users EXCEPT ![req[r].snap[1].id].password = req[r].local[1]]
    /\ Finish(r, Ok(200), << >>)
    /\ UNCHANGED <<categories, items, warehouses, stockLevels, movements,
                   issued, now, nreq, faults>>

ChangePasswordUpdate(r) ==
    /\ Quiet
    /\ req[r].pc = "cp_update"
    /\ users' = [users EXCEPT ![req[r].snap[1].id] =
                   [@ EXCEPT !.password = req[r].local[1],
                             !.mustChangePassword = FALSE]]
    /\ Finish(r, Ok(200), << >>)
    /\ UNCHANGED <<categories, items, warehouses, stockLevels, movements,
                   issued, now, nreq, faults>>

(***************************************************************************)
(* The clock.                                                              *)
(***************************************************************************)
Tick ==
    /\ Quiet
    /\ now < MaxTime
    /\ now' = now + 1
    /\ UNCHANGED <<store, issued, req, last, nreq, faults>>

(***************************************************************************)
(* /api/users                                                              *)
(***************************************************************************)
DepartmentInputs == {""}

CreateUserBegin(r) ==
    /\ Quiet
    /\ FreeSlot(r)
    /\ \E hdr \in Headers :
         LET route == "POST /api/users"
             c == Gate(route, hdr, now)
         IN IF c.resp # NoResponse
              THEN Answer(route, NoBody, c, FALSE, c.resp)
            ELSE \E email \in EmailInputs, role \in RoleInputs,
                    department \in DepartmentInputs :
              LET body == [email |-> email, fullName |-> "Bob", role |-> role,
                           department |-> department]
              IN IF email = << >> \/ body.fullName = "" \/ role = ""
                   THEN Answer(route, body, c, TRUE,
                          Respond(400, "email, fullName and role are required."))
                 ELSE IF ~isValidEmail(email)
                   THEN Answer(route, body, c, TRUE,
                          Respond(400, "Invalid email format."))
                 ELSE IF role \notin ALLOWED_ROLES
                   THEN Answer(route, body, c, TRUE,
                          Respond(400, "Invalid role."))
                 ELSE IF FindUserByEmail(email) # << >>
                   THEN Answer(route, body, c, TRUE,
                          Respond(409, "A user with this email already exists."))
                 ELSE \E tempPassword \in generateTempPassword(TEMP_PASSWORD_LENGTH) :
                        Await(r, route, body, c, "user_create", << >>,
                              <<tempPassword>>, 1)

\* sendEmail of the temporary password: skipped when the mail account is
\* not configured, sent, or failed with an error thrown by the transport
MailOutcomes == {"skipped", "sent", "failed"}

\* the call of sendEmail outside a try/catch
AfterSendEmailUncaught(mail) ==
    IF mail = "failed"
      THEN errorHandler([message |-> "Mail transport failed",
                         statusCode |-> 0])
      ELSE Ok(201)

\* the response after sendEmail: an error it throws is caught and logged
AfterSendEmail(mail) == Ok(201)

\* prisma.user.create, then the mail, then the response; the mail is no
\* store call and the response reads the row the insert returned
CreateUserInsert(r) ==
    /\ Quiet
    /\ req[r].pc = "user_create"
    /\ LET body == req[r].body
       IN IF UniqueIndexRefuses(users, "email", body.email)
            THEN /\ Finish(r, errorHandler(UniqueViolation), << >>)
                 /\ UNCHANGED users
            ELSE \E id \in FreshIds(users, UserIdPool) :
                   /\ users' = (id :>
                        [id |-> id, email |-> body.email, fullName |-> body.fullName,
                         password |-> hashPassword(req[r].local[1]),
                         role |-> body.role,
                         department |-> IF body.department = "" THEN "null"
                                        ELSE body.department,
                         isActive |-> TRUE, mustChangePassword |-> TRUE,
                         canChangePassword |-> TRUE, lastLoginAt |-> NoDate])
                        @@ users
                   /\ \E mail \in MailOutcomes :
                        /\ last' = [Completed(req[r].route, body,
                                              SlotContext(r), TRUE,
                                              AfterSendEmail(mail), << >>)
                                       EXCEPT !.mail = mail]
                        /\ req' = [req EXCEPT ![r] = Idle]
    /\ UNCHANGED <<categories, items, warehouses, stockLevels, movements,
                   issued, now, nreq, faults>>

ListRoutes == {"GET /api/users", "GET /api/items/categories", "GET /api/items",
               "GET /api/warehouses", "GET /api/warehouses/stock"}

\* the findMany routes: the gate, then a read of the store
List(r, route) ==
    /\ Quiet
    /\ FreeSlot(r)
    /\ \E hdr \in Headers :
         LET c == Gate(route, hdr, now)
         IN IF c.resp # NoResponse
              THEN Answer(route, NoBody, c, FALSE, c.resp)
              ELSE Answer(route, NoBody, c, TRUE, Ok(200))

GetUser(r) ==
    /\ Quiet
    /\ FreeSlot(r)
    /\ \E hdr \in Headers :
         LET route == "GET /api/users/:id"
             c == Gate(route, hdr, now)
         IN IF c.resp # NoResponse
              THEN Answer(route, NoBody, c, FALSE, c.resp)
            ELSE \E id \in UserIds :
              IF FindById(users, id) = << >>
                THEN Answer(route, NoBody, c, TRUE,
                            Respond(404, "User not found."))
                ELSE Answer(route, NoBody, c, TRUE, Ok(200))

\* request bodies of the patch: each of role, department and isActive is
\* << >> when the body leaves it out
PatchInputs ==
    { [role |-> <<"STAFF">>, department |-> <<"Ops">>, isActive |-> << >>],
      [role |-> <<"BOGUS">>, department |-> << >>, isActive |-> <<TRUE>>],
      [role |-> << >>, department |-> << >>, isActive |-> <<FALSE>>] }

PatchUserBegin(r) ==
    /\ Quiet
    /\ FreeSlot(r)
    /\ \E hdr \in Headers :
         LET route == "PATCH /api/users/:id"
             c == Gate(route, hdr, now)
         IN IF c.resp # NoResponse
              THEN Answer(route, NoBody, c, FALSE, c.resp)
            ELSE \E id \in UserIds, patch \in PatchInputs :
              LET body == [id |-> id, role |-> patch.role,
                           department |-> patch.department,
                           isActive |-> patch.isActive]
                  role == patch.role
              IN IF FindById(users, id) = << >>
                   THEN Answer(route, NoBody, c, TRUE,
                               Respond(404, "User not found."))
                 ELSE IF role # << >> /\ role[1] \notin ALLOWED_ROLES
                   THEN Answer(route, NoBody, c, TRUE,
                               Respond(400, "Invalid role."))
                 ELSE Await(r, route, body, c, "user_update", << >>, << >>, 1)

\* prisma.user.update({where: {id}, data}): only the fields put into data
PatchUserUpdate(r) ==
    /\ Quiet
    /\ req[r].pc = "user_update"
    /\ LET body == req[r].body
       IN users' = [users EXCEPT ![body.id] =
            [@ EXCEPT !.role = IF body.role # << >> THEN body.role[1] ELSE @,
                      !.department = IF body.department # << >>
                                       THEN body.department[1] ELSE @,
                      !.isActive = IF body.isActive # << >>
                                     THEN body.isActive[1] ELSE @]]
    /\ Finish(r, Ok(200), << >>)
    /\ UNCHANGED <<categories, items, warehouses, stockLevels, movements,
                   issued, now, nreq, faults>>

(***************************************************************************)
(* /api/items                                                              *)
(***************************************************************************)
CategoryNameInputs == {"", "Stationery", "Tools"}

FindByKey(table, key, value) ==
    IF \E id \in DOMAIN table : table[id][key] = value
      THEN << table[CHOOSE id \in DOMAIN table : table[id][key] = value] >>
      ELSE << >>

CreateCategoryBegin(r) ==
    /\ Quiet
    /\ FreeSlot(r)
    /\ \E hdr \in Headers :
         LET route == "POST /api/items/categories"
             c == Gate(route, hdr, now)
         IN IF c.resp # NoResponse
              THEN Answer(route, NoBody, c, FALSE, c.resp)
            ELSE \E name \in CategoryNameInputs :
              LET body == [name |-> name]
              IN IF name = ""
                   THEN Answer(route, body, c, TRUE,
                               Respond(400, "Category name is required."))
                 ELSE IF FindByKey(categories, "name", name) # << >>
                   THEN Answer(route, body, c, TRUE,
                          Respond(409, "A category with this name already exists."))
                 ELSE Await(r, route, body, c, "category_create", << >>, << >>, 1)

CreateCategoryInsert(r) ==
    /\ Quiet
    /\ req[r].pc = "category_create"
    /\ IF UniqueIndexRefuses(categories, "name", req[r].body.name)
         THEN /\ Finish(r, errorHandler(UniqueViolation), << >>)
              /\ UNCHANGED categories
         ELSE \E id \in FreshIds(categories, CategoryIdPool) :
                /\ categories' = (id :> [id |-> id, name |-> req[r].body.name,
                                         isActive |-> TRUE]) @@ categories
                /\ Finish(r, Ok(201), << >>)
    /\ UNCHANGED <<users, items, warehouses, stockLevels, movements,
                   issued, now, nreq, faults>>

SkuInputs == {"", "INK"}
CategoryIdInputs == {"c1", "c9"}

CreateItemBegin(r) ==
    /\ Quiet
    /\ FreeSlot(r)
    /\ \E hdr \in Headers :
         LET route == "POST /api/items"
             c == Gate(route, hdr, now)
         IN IF c.resp # NoResponse
              THEN Answer(route, NoBody, c, FALSE, c.resp)
            ELSE \E sku \in SkuInputs, categoryId \in CategoryIdInputs :
              LET body == [name |-> "Stapler", sku |-> sku, unit |-> "pcs",
                           categoryId |-> categoryId]
                  category == FindById(categories, categoryId)
              IN IF body.name = "" \/ body.unit = "" \/ categoryId = ""
                   THEN Answer(route, body, c, TRUE,
                          Respond(400, "name, unit and categoryId are required."))
                 ELSE IF category = << >> \/ ~category[1].isActive
                   THEN Answer(route, body, c, TRUE,
                          Respond(400, "Invalid or inactive categoryId."))
                 ELSE Await(r, route, body, c,
                            IF sku # "" THEN "item_sku" ELSE "item_create",
                            << >>, << >>, 1)

CreateItemCheckSku(r) ==
    /\ Quiet
    /\ req[r].pc = "item_sku"
    /\ IF FindByKey(items, "sku", req[r].body.sku) # << >>
         THEN Finish(r, Respond(409, "An item with this SKU already exists."),
                     << >>)
         ELSE /\ req' = [req EXCEPT ![r].pc = "item_create"]
              /\ UNCHANGED last
    /\ UNCHANGED <<store, issued, now, nreq, faults>>

CreateItemInsert(r) ==
    /\ Quiet
    /\ req[r].pc = "item_create"
    /\ LET body == req[r].body
       IN IF body.sku # "" /\ UniqueIndexRefuses(items, "sku", body.sku)
            THEN /\ Finish(r, errorHandler(UniqueViolation), << >>)
                 /\ UNCHANGED items
            ELSE \E id \in FreshIds(items, ItemIdPool) :
                   /\ items' = (id :> [id |-> id, name |-> body.name,
                                       sku |-> body.sku, unit |-> body.unit,
                                       categoryId |-> body.categoryId,
                                       isActive |-> TRUE]) @@ items
                   /\ Finish(r, Ok(201), << >>)
    /\ UNCHANGED <<users, categories, warehouses, stockLevels, movements,
                   issued, now, nreq, faults>>

(***************************************************************************)
(* /api/warehouses                                                         *)
(***************************************************************************)
WarehouseCodeInputs == {"", "MAIN", "ANNEX"}

CreateWarehouseBegin(r) ==
    /\ Quiet
    /\ FreeSlot(r)
    /\ \E hdr \in Headers :
         LET route == "POST /api/warehouses"
             c == Gate(route, hdr, now)
         IN IF c.resp # NoResponse
              THEN Answer(route, NoBody, c, FALSE, c.resp)
            ELSE \E code \in WarehouseCodeInputs :
              LET body == [name |-> "Annex", code |-> code]
              IN IF body.name = "" \/ code = ""
                   THEN Answer(route, body, c, TRUE,
                               Respond(400, "name and code are required"))
                 ELSE IF FindByKey(warehouses, "code", code) # << >>
                   THEN Answer(route, body, c, TRUE,
                          Respond(409, "A warehouse with this code already exists."))
                 ELSE Await(r, route, body, c, "warehouse_create", << >>, << >>, 1)

CreateWarehouseInsert(r) ==
    /\ Quiet
    /\ req[r].pc = "warehouse_create"
    /\ LET body == req[r].body
       IN IF UniqueIndexRefuses(warehouses, "code", body.code)
            THEN /\ Finish(r, errorHandler(UniqueViolation), << >>)
                 /\ UNCHANGED warehouses
            ELSE \E id \in FreshIds(warehouses, WarehouseIdPool) :
                   /\ warehouses' = (id :> [id |-> id, name |-> body.name,
                                            code |-> body.code,
                                            isActive |-> TRUE]) @@ warehouses
                   /\ Finish(r, Ok(201), << >>)
    /\ UNCHANGED <<users, categories, items, stockLevels, movements,
                   issued, now, nreq, faults>>

(***************************************************************************)
(* POST /api/warehouses/opening-stock                                      *)
(***************************************************************************)
ItemIdInputs == {"i1", "i2", "i9"}
WarehouseIdInputs == {"w1", "w2", "w9"}
QuantityInputs == {<< >>, <<-1>>, <<0>>, <<100>>}
ReorderLevelInputs == {<< >>, <<5>>}

\* opening-stock requests that have reached the store so far
OpeningBegun ==
    Len(movements) + faults
      + Cardinality({r \in Slots : req[r].route = "POST /api/warehouses/opening-stock"})

OpeningStockBegin(r) ==
    /\ Quiet
    /\ FreeSlot(r)
    /\ \E hdr \in Headers :
         LET route == "POST /api/warehouses/opening-stock"
             c == Gate(route, hdr, now)
         IN IF c.resp # NoResponse
              THEN Answer(route, NoBody, c, FALSE, c.resp)
            ELSE \E itemId \in ItemIdInputs, warehouseId \in WarehouseIdInputs,
                    quantity \in QuantityInputs, reorderLevel \in ReorderLevelInputs :
              LET body == [itemId |-> itemId, warehouseId |-> warehouseId,
                           quantity |-> quantity, reorderLevel |-> reorderLevel]
                  item == FindById(items, itemId)
              IN IF itemId = "" \/ warehouseId = "" \/ quantity = << >>
                   THEN Answer(route, body, c, TRUE,
                          Respond(400, "itemId, warehouseId and quantity are required."))
                 ELSE IF quantity[1] < 0
                   THEN Answer(route, body, c, TRUE,
                          Respond(400, "quantity cannot be negative."))
                 ELSE IF item = << >> \/ ~item[1].isActive
                   THEN Answer(route, body, c, TRUE,
                          Respond(400, "Invalid or inactive itemId."))
                 ELSE /\ OpeningBegun < MaxOpening
                      /\ Await(r, route, body, c, "stock_warehouse", << >>, << >>, 0)

\* the handler without its warehouse check
OpeningStockWarehouseUnchecked(r) ==
    /\ Quiet
    /\ req[r].pc = "stock_warehouse"
    /\ req' = [req EXCEPT ![r].pc = "stock_upsert"]
    /\ UNCHANGED <<store, issued, now, last, nreq, faults>>

OpeningStockWarehouse(r) ==
    /\ Quiet
    /\ req[r].pc = "stock_warehouse"
    /\ LET warehouse == FindById(warehouses, req[r].body.warehouseId)
       IN IF warehouse = << >> \/ ~warehouse[1].isActive
            THEN Finish(r, Respond(400, "Invalid or inactive warehouseId."), << >>)
            ELSE /\ req' = [req EXCEPT ![r].pc = "stock_upsert"]
                 /\ UNCHANGED last
    /\ UNCHANGED <<store, issued, now, nreq, faults>>

\* whether the store call about to be made throws
Throws == {FALSE} \cup (IF faults < MaxFaults THEN {TRUE} ELSE {})

\* prisma.stockLevel.upsert on the (itemId, warehouseId) key
UpsertStockLevel(levels, body) ==
    LET key == <<body.itemId, body.warehouseId>>
        reorderLevel == IF body.reorderLevel # << >> THEN body.reorderLevel[1] ELSE 0
    IN IF key \in DOMAIN levels
         THEN [levels EXCEPT ![key] = [@ EXCEPT !.quantity = body.quantity[1],
                                                !.reorderLevel = reorderLevel]]
         ELSE (key :> [itemId |-> body.itemId, warehouseId |-> body.warehouseId,
                       quantity |-> body.quantity[1],
                       reorderLevel |-> reorderLevel]) @@ levels

OpeningStockUpsert(r) ==
    /\ Quiet
    /\ req[r].pc = "stock_upsert"
    /\ \E throws \in Throws :
         IF throws
           THEN /\ faults' = faults + 1
                /\ Finish(r, errorHandler(StoreFailure), << >>)
                /\ UNCHANGED stockLevels
           ELSE /\ stockLevels' = UpsertStockLevel(stockLevels, req[r].body)
                /\ req' = [req EXCEPT ![r].pc = "stock_movement"]
                /\ UNCHANGED <<last, faults>>
    /\ UNCHANGED <<users, categories, items, warehouses, movements,
                   issued, now, nreq>>

\* prisma.stockMovement.create
OpeningMovement(body, userId, t) ==
    [itemId |-> body.itemId, warehouseId |-> body.warehouseId,
     quantity |-> body.quantity[1], movementType |-> "OPENING",
     referenceType |-> "OPENING_STOCK", referenceId |-> "null",
     remarks |-> "Opening stock", createdById |-> userId, createdAt |-> t]

\* a log that keeps one row per pair: the newer row replaces the older one
MergeMovement(log, row) ==
    IF \E i \in 1..Len(log) : log[i].itemId = row.itemId
                                 /\ log[i].warehouseId = row.warehouseId
      THEN [i \in 1..Len(log) |->
              IF log[i].itemId = row.itemId /\ log[i].warehouseId = row.warehouseId
                THEN row ELSE log[i]]
      ELSE Append(log, row)

AppendMovement(log, row) == Append(log, row)

OpeningStockMovement(r) ==
    /\ Quiet
    /\ req[r].pc = "stock_movement"
    /\ \E throws \in Throws :
         IF throws
           THEN /\ faults' = faults + 1
                /\ Finish(r, errorHandler(StoreFailure), << >>)
                /\ UNCHANGED movements
           ELSE /\ movements' = AppendMovement(movements,
                       OpeningMovement(req[r].body, req[r].user[1].id, now))
                /\ Finish(r, Ok(200), << >>)
                /\ UNCHANGED faults
    /\ UNCHANGED <<users, categories, items, warehouses, stockLevels,
                   issued, now, nreq>>

\* the client takes the response
Deliver ==
    /\ ~Quiet
    /\ last' = NoAnswer
    /\ UNCHANGED <<store, issued, now, req, nreq, faults>>

(***************************************************************************)
(* The service.                                                            *)
(***************************************************************************)
Next ==
    \/ \E r \in Slots : LoginBegin(r)
    \/ \E r \in Slots : LoginUpdate(r)
    \/ \E r \in Slots : Me(r)
    \/ \E r \in Slots : ChangePasswordBegin(r)
    \/ \E r \in Slots : ChangePasswordUpdate(r)
    \/ \E r \in Slots : CreateUserBegin(r)
    \/ \E r \in Slots : CreateUserInsert(r)
    \/ \E r \in Slots : \E route \in ListRoutes : List(r, route)
    \/ \E r \in Slots : GetUser(r)
    \/ \E r \in Slots : PatchUserBegin(r)
    \/ \E r \in Slots : PatchUserUpdate(r)
    \/ \E r \in Slots : CreateCategoryBegin(r)
    \/ \E r \in Slots : CreateCategoryInsert(r)
    \/ \E r \in Slots : CreateItemBegin(r)
    \/ \E r \in Slots : CreateItemCheckSku(r)
    \/ \E r \in Slots : CreateItemInsert(r)
    \/ \E r \in Slots : CreateWarehouseBegin(r)
    \/ \E r \in Slots : CreateWarehouseInsert(r)
    \/ \E r \in Slots : OpeningStockBegin(r)
    \/ \E r \in Slots : OpeningStockWarehouse(r)
    \/ \E r \in Slots : OpeningStockUpsert(r)
    \/ \E r \in Slots : OpeningStockMovement(r)
    \/ Tick
    \/ Deliver

Spec == Init /\ [][Next]_vars

\* the stock ledger alone: logins and opening-stock requests, within the
\* lifetime of the tokens
NextLedger ==
    \/ \E r \in Slots : LoginBegin(r)
    \/ \E r \in Slots : LoginUpdate(r)
    \/ \E r \in Slots : OpeningStockBegin(r)
    \/ \E r \in Slots : OpeningStockWarehouse(r)
    \/ \E r \in Slots : OpeningStockUpsert(r)
    \/ \E r \in Slots : OpeningStockMovement(r)
    \/ Deliver

SpecLedger == Init /\ [][NextLedger]_vars

\* accounts and sessions: the auth and user routes and the list routes,
\* within the lifetime of the tokens
NextAuth ==
    \/ \E r \in Slots : LoginBegin(r)
    \/ \E r \in Slots : LoginUpdate(r)
    \/ \E r \in Slots : Me(r)
    \/ \E r \in Slots : ChangePasswordBegin(r)
    \/ \E r \in Slots : ChangePasswordUpdate(r)
    \/ \E r \in Slots : CreateUserBegin(r)
    \/ \E r \in Slots : CreateUserInsert(r)
    \/ \E r \in Slots : \E route \in ListRoutes : List(r, route)
    \/ \E r \in Slots : GetUser(r)
    \/ \E r \in Slots : PatchUserBegin(r)
    \/ \E r \in Slots : PatchUserUpdate(r)
    \/ Deliver

SpecAuth == Init /\ [][NextAuth]_vars

\* the role-gated routes: sessions, the user routes and the catalogue
\* routes, within the lifetime of the tokens
NextRoles ==
    \/ \E r \in Slots : LoginBegin(r)
    \/ \E r \in Slots : LoginUpdate(r)
    \/ \E r \in Slots : ChangePasswordBegin(r)
    \/ \E r \in Slots : ChangePasswordUpdate(r)
    \/ \E r \in Slots : CreateUserBegin(r)
    \/ \E r \in Slots : CreateUserInsert(r)
    \/ \E r \in Slots : \E route \in ListRoutes : List(r, route)
    \/ \E r \in Slots : GetUser(r)
    \/ \E r \in Slots : PatchUserBegin(r)
    \/ \E r \in Slots : PatchUserUpdate(r)
    \/ \E r \in Slots : CreateCategoryBegin(r)
    \/ \E r \in Slots : CreateCategoryInsert(r)
    \/ \E r \in Slots : CreateItemBegin(r)
    \/ \E r \in Slots : CreateItemCheckSku(r)
    \/ \E r \in Slots : CreateItemInsert(r)
    \/ \E r \in Slots : CreateWarehouseBegin(r)
    \/ \E r \in Slots : CreateWarehouseInsert(r)
    \/ Deliver

SpecRoles == Init /\ [][NextRoles]_vars

\* the create routes: a session and the four creations under a unique key
NextCatalog ==
    \/ \E r \in Slots : LoginBegin(r)
    \/ \E r \in Slots : LoginUpdate(r)
    \/ \E r \in Slots : CreateUserBegin(r)
    \/ \E r \in Slots : CreateUserInsert(r)
    \/ \E r \in Slots : CreateCategoryBegin(r)
    \/ \E r \in Slots : CreateCategoryInsert(r)
    \/ \E r \in Slots : CreateItemBegin(r)
    \/ \E r \in Slots : CreateItemCheckSku(r)
    \/ \E r \in Slots : CreateItemInsert(r)
    \/ \E r \in Slots : CreateWarehouseBegin(r)
    \/ \E r \in Slots : CreateWarehouseInsert(r)
    \/ Deliver

SpecCatalog == Init /\ [][NextCatalog]_vars

\* tokens over their lifetime: sessions of the administrator and of a
\* created user, GET /me, and the clock
NextToken ==
    \/ \E r \in Slots : LoginBegin(r)
    \/ \E r \in Slots : LoginUpdate(r)
    \/ \E r \in Slots : Me(r)
    \/ \E r \in Slots : CreateUserBegin(r)
    \/ \E r \in Slots : CreateUserInsert(r)
    \/ Tick
    \/ Deliver

SpecToken == Init /\ [][NextToken]_vars

(***************************************************************************)
(* The seed script, run against the migrated database and again at any     *)
(* later time, beside the accounts routes.                                 *)
(***************************************************************************)
\* the store after the migration alone: every table empty
InitMigrated ==
    /\ users = << >>
    /\ categories = << >>
    /\ items = << >>
    /\ warehouses = << >>
    /\ stockLevels = << >>
    /\ movements = << >>
    /\ issued = {}
    /\ now = 0
    /\ req = [r \in Slots |-> Idle]
    /\ last = NoAnswer
    /\ nreq = 0
    /\ faults = 0

\* main up to prisma.user.findUnique by ADMIN_EMAIL: with a row found the
\* script logs and returns; without one it hashes ADMIN_PASSWORD and goes
\* on to the insert. status is the exit code of the script.
SeedFind(r) ==
    /\ Quiet
    /\ FreeSlot(r)
    /\ IF FindUserByEmail(AdminEmail) # << >>
         THEN Answer("prisma/seed.ts", NoBody, NewContext, TRUE,
                     Respond(0, "Admin user already exists. No changes made."))
         ELSE Await(r, "prisma/seed.ts", NoBody, NewContext, "seed_create",
                    << >>, <<hashPassword(AdminPassword)>>, 0)

\* prisma.user.create of the administrator; a refusal of the unique index
\* on email rejects main, and the catch at the end exits with code 1
SeedCreate(r) ==
    /\ Quiet
    /\ req[r].pc = "seed_create"
    /\ IF UniqueIndexRefuses(users, "email", AdminEmail)
         THEN /\ Finish(r, Respond(1, UniqueViolation.message), << >>)
              /\ UNCHANGED users
         ELSE \E id \in FreshIds(users, UserIdPool) :
                /\ users' = (id :> [SeedAdmin EXCEPT
                                      !.id = id,
                                      !.password = req[r].local[1]]) @@ users
                /\ Finish(r, Ok(0), << >>)
    /\ UNCHANGED <<categories, items, warehouses, stockLevels, movements,
                   issued, now, nreq, faults>>

NextSeed ==
    \/ \E r \in Slots : SeedFind(r)
    \/ \E r \in Slots : SeedCreate(r)
    \/ \E r \in Slots : LoginBegin(r)
    \/ \E r \in Slots : LoginUpdate(r)
    \/ \E r \in Slots : ChangePasswordBegin(r)
    \/ \E r \in Slots : ChangePasswordUpdate(r)
    \/ \E r \in Slots : CreateUserBegin(r)
    \/ \E r \in Slots : CreateUserInsert(r)
    \/ \E r \in Slots : PatchUserBegin(r)
    \/ \E r \in Slots : PatchUserUpdate(r)
    \/ Deliver

SpecSeed == InitMigrated /\ [][NextSeed]_vars

(***************************************************************************)
(* generateTempPassword(length) as the loop it is: each round draws        *)
(* `length` characters of the alphabet and returns the draw when           *)
(* validatePasswordStrength accepts it. The function is synchronous: no    *)
(* other handler runs while it loops.                                      *)
(***************************************************************************)
\* the characters drawn, a sample of the alphabet with one of each class
TempSample == {"A", "b", "3", "#"}

\* the lengths requested: one below the minimum length and the minimum
TempLengths == {MIN_PASSWORD_LENGTH - 1, MIN_PASSWORD_LENGTH}

\* what one round of the inner loop can produce: the first MaxDrawn
\* characters range over the sample, the others are held at one character
TempCandidates(length) ==
    { [i \in 1..length |-> IF i <= MaxDrawn THEN t[i] ELSE "b"] :
        t \in [1..MaxDrawn -> TempSample \cap TempAlphabet] }

\* generateTempPassword(length) is called
TempCall(r) ==
    /\ Quiet
    /\ FreeSlot(r)
    /\ ~(\E q \in Slots : req[q].route = "generateTempPassword")
    /\ \E length \in TempLengths :
         req' = [req EXCEPT ![r] =
                   [Idle EXCEPT !.route = "generateTempPassword",
                                !.pc = "temp_draw",
                                !.body = [length |-> length]]]
    /\ UNCHANGED <<store, issued, now, last, nreq, faults>>

\* one round of the for loop has drawn `password`
TempDrawOf(r, password) ==
    /\ req[r].pc = "temp_draw"
    /\ req' = [req EXCEPT ![r].pc = "temp_check", ![r].local = <<password>>]
    /\ UNCHANGED <<store, issued, now, last, nreq, faults>>

TempDraw(r) ==
    /\ req[r].pc = "temp_draw"
    /\ \E password \in TempCandidates(req[r].body.length) :
         TempDrawOf(r, password)

\* a round whose draw passes the strength rules
TempDrawAccepted(r) ==
    /\ req[r].pc = "temp_draw"
    /\ \E password \in TempCandidates(req[r].body.length) :
         /\ validatePasswordStrength(password) = NoViolation
         /\ TempDrawOf(r, password)

\* the check of the draw: return it, or loop again
TempCheck(r) ==
    /\ req[r].pc = "temp_check"
    /\ req' = IF validatePasswordStrength(req[r].local[1]) = NoViolation
                THEN [req EXCEPT ![r].pc = "temp_returned"]
                ELSE [req EXCEPT ![r].pc = "temp_draw", ![r].local = << >>]
    /\ UNCHANGED <<store, issued, now, last, nreq, faults>>

\* the caller has taken the returned password
TempReturn(r) ==
    /\ req[r].pc = "temp_returned"
    /\ req' = [req EXCEPT ![r] = Idle]
    /\ UNCHANGED <<store, issued, now, last, nreq, faults>>

NextTemp ==
    \/ \E r \in Slots : TempCall(r)
    \/ \E r \in Slots : TempDraw(r)
    \/ \E r \in Slots : TempCheck(r)
    \/ \E r \in Slots : TempReturn(r)

\* the loop keeps running and its random draws are fair: a round that can
\* again and again draw an acceptable password eventually draws one
SpecTempFair ==
    /\ Init /\ [][NextTemp]_vars
    /\ \A r \in Slots : WF_vars(TempDraw(r))
    /\ \A r \in Slots : WF_vars(TempCheck(r))
    /\ \A r \in Slots : SF_vars(TempDrawAccepted(r))

(***************************************************************************)
(* validatePasswordStrength(password) on its own: calls with passwords     *)
(* around the minimum length whose first MaxDrawn characters range over    *)
(* the sample and whose other characters are one of no class.              *)
(***************************************************************************)
StrengthInputs ==
    UNION { { [i \in 1..n |-> IF i <= MaxDrawn THEN t[i] ELSE "_"] :
                t \in [1..MaxDrawn -> TempSample] } :
            n \in {0} \cup ((MIN_PASSWORD_LENGTH - 1)..(MIN_PASSWORD_LENGTH + 1)) }

\* validatePasswordStrength(password) is called
StrengthCall(r) ==
    /\ Quiet
    /\ r = 1
    /\ req[r].pc = "idle"
    /\ \E password \in StrengthInputs :
         req' = [req EXCEPT ![r] =
                   [Idle EXCEPT !.route = "validatePasswordStrength",
                                !.pc = "strength_check",
                                !.body = [password |-> password]]]
    /\ UNCHANGED <<store, issued, now, last, nreq, faults>>

\* the call returns its result
StrengthCheck(r) ==
    /\ req[r].pc = "strength_check"
    /\ req' = [req EXCEPT ![r].pc = "strength_returned",
                          ![r].local =
                             <<validatePasswordStrength(req[r].body.password)>>]
    /\ UNCHANGED <<store, issued, now, last, nreq, faults>>

NextStrength ==
    \/ \E r \in Slots : StrengthCall(r)
    \/ \E r \in Slots : StrengthCheck(r)

SpecStrength == Init /\ [][NextStrength]_vars

(***************************************************************************)
(* The stock ledger (SpecLedger).                                          *)
(***************************************************************************)
OpeningRoute == "POST /api/warehouses/opening-stock"

OpeningInFlight == {r \in Slots : req[r].route = OpeningRoute}

\* positions in the log of the movements of a pair
MovementsOf(key) ==
    {i \in 1..Len(movements) :
        <<movements[i].itemId, movements[i].warehouseId>> = key}

LastMovementOf(key) ==
    movements[CHOOSE i \in MovementsOf(key) : \A j \in MovementsOf(key) : j <= i]

\* C1: concurrent opening-stock calls on one (itemId, warehouseId) pair
\* take effect as if serialized: whenever all of them have completed (and
\* no store call has failed), the pair's StockLevel.quantity is the
\* quantity of the OPENING movement appended last for the pair.
C1_SerializedOpeningStock ==
    (OpeningInFlight = {} /\ faults = 0) =>
        \A key \in DOMAIN stockLevels :
            /\ MovementsOf(key) # {}
            /\ stockLevels[key].quantity = LastMovementOf(key).quantity

\* C2: opening stock is all-or-nothing: once no call is in flight, every
\* StockLevel row carries the quantity of a recorded OPENING movement of
\* its pair, and every recorded movement has a StockLevel row for its pair.
C2_AllOrNothing ==
    OpeningInFlight = {} =>
        /\ \A key \in DOMAIN stockLevels :
              \E i \in MovementsOf(key) :
                  movements[i].quantity = stockLevels[key].quantity
        /\ \A i \in 1..Len(movements) :
              <<movements[i].itemId, movements[i].warehouseId>>
                  \in DOMAIN stockLevels

\* the reorder level a request asks for: 0 when the body leaves it out
RequestedReorderLevel(body) ==
    IF body.reorderLevel # << >> THEN body.reorderLevel[1] ELSE 0

\* C3: when a valid opening-stock call completes (200), the StockLevel row
\* of its pair holds exactly the requested quantity and reorderLevel, and
\* the newest row of the log is this call's OPENING movement, with the
\* same quantity, reference type OPENING_STOCK and the acting user.
C3_OpeningStockPostcondition ==
    (last.route = OpeningRoute /\ last.status = 200) =>
        LET key == <<last.body.itemId, last.body.warehouseId>>
        IN /\ key \in DOMAIN stockLevels
           /\ stockLevels[key].quantity = last.body.quantity[1]
           /\ stockLevels[key].reorderLevel = RequestedReorderLevel(last.body)
           /\ movements # << >>
           /\ LET m == movements[Len(movements)]
              IN /\ <<m.itemId, m.warehouseId>> = key
                 /\ m.quantity = last.body.quantity[1]
                 /\ m.movementType = "OPENING"
                 /\ m.referenceType = "OPENING_STOCK"
                 /\ m.createdById = last.user[1].id

\* C4: the movement log is append-only: every step keeps each row of the
\* log, with identical fields, at its position; no step updates or deletes
\* a movement.
C4_MovementsAppendOnly ==
    [][/\ Len(movements') >= Len(movements)
       /\ \A i \in 1..Len(movements) : movements'[i] = movements[i]]_vars

\* a second movement has been appended after a first, different one
C4_Witness ==
    /\ Len(movements) >= 2
    /\ movements[1] # movements[2]

\* what makes a request body invalid
NegativeQuantity(body) == body.quantity # << >> /\ body.quantity[1] < 0

BadItem(body) ==
    body.itemId \notin DOMAIN items \/ ~items[body.itemId].isActive

BadWarehouse(body) ==
    body.warehouseId \notin DOMAIN warehouses
        \/ ~warehouses[body.warehouseId].isActive

\* C5: an opening-stock call with a negative quantity, a missing or
\* inactive item, or a missing or inactive warehouse is answered with
\* InvalidInput (400); a request in flight with such a body has written
\* nothing and never reaches the two writes, and no StockLevel row or
\* StockMovement exists for a bad item or warehouse or with a negative
\* quantity.
C5_InvalidInputWritesNothing ==
    /\ (/\ last.route = OpeningRoute
        /\ last.handler
        /\ NegativeQuantity(last.body) \/ BadItem(last.body)
             \/ BadWarehouse(last.body))
          => last.status = 400
    /\ \A r \in OpeningInFlight :
          (NegativeQuantity(req[r].body) \/ BadItem(req[r].body)
             \/ BadWarehouse(req[r].body))
            => req[r].pc = "stock_warehouse"
    /\ \A key \in DOMAIN stockLevels :
          /\ key[1] \in DOMAIN items /\ items[key[1]].isActive
          /\ key[2] \in DOMAIN warehouses /\ warehouses[key[2]].isActive
          /\ stockLevels[key].quantity >= 0
    /\ \A i \in 1..Len(movements) :
          /\ movements[i].itemId \in DOMAIN items
          /\ items[movements[i].itemId].isActive
          /\ movements[i].warehouseId \in DOMAIN warehouses
          /\ warehouses[movements[i].warehouseId].isActive
          /\ movements[i].quantity >= 0

\* a call on an inactive warehouse has been rejected after a level and a
\* movement were written by an earlier call
C5_Witness ==
    /\ last.route = OpeningRoute
    /\ last.handler
    /\ last.status = 400
    /\ last.error = "Invalid or inactive warehouseId."
    /\ movements # << >>

(***************************************************************************)
(* The authorization gate (SpecAuth).                                      *)
(***************************************************************************)
IsPrefix(s, t) == Len(s) <= Len(t) /\ SubSeq(t, 1, Len(s)) = s

ChangePasswordRoute == "POST /api/auth/change-password"

RotationRequired ==
    Respond(403, "You must change your password before accessing this resource.")

Forbidden ==
    Respond(403, "You do not have permission to perform this action.")

LastResponse == Respond(last.status, last.error)

\* the response is one the named middleware sends when it fails
FailureOf(guard, resp) ==
    CASE guard = "authMiddleware" ->
           resp \in {Respond(401, "Missing or invalid Authorization header."),
                     Respond(401, "Invalid or expired token.")}
      [] guard = "requireAuth" -> resp = Respond(401, "Authentication required.")
      [] guard = "requireNonFirstLogin" ->
           resp \in {Respond(401, "Authentication required."), RotationRequired}
      [] guard = "requireRole" ->
           resp \in {Respond(401, "Authentication required."), Forbidden}

LoginRoute == "POST /api/auth/login"

\* this step admits a request made with a token of user id past the gate
\* of one of the routes: the request is answered by its handler in the
\* step, or its handler starts to wait for the store
Admits(id, routes) ==
    \/ /\ last = NoAnswer /\ last' # NoAnswer /\ req' = req
       /\ last'.route \in routes
       /\ last'.handler
       /\ last'.user # << >> /\ last'.user[1].id = id
    \/ \E r \in Slots :
          /\ req[r].pc = "idle" /\ req'[r].pc # "idle"
          /\ req'[r].route \in routes
          /\ req'[r].user # << >> /\ req'[r].user[1].id = id

\* this step looks the user of a login up and goes on to issue a token
LoginAccepts(id) ==
    \E r \in Slots :
        /\ req[r].pc = "idle" /\ req'[r].pc = "login_update"
        /\ req'[r].snap[1].id = id

C10_GateReadsTokenOnly ==
    (last.route \in ProtectedRoutes /\ last.user # << >>) =>
        /\ \E t \in issued :
              /\ t.sub = last.user[1].id
              /\ t.role = last.user[1].role
              /\ t.mustChangePassword = last.user[1].mustChangePassword
        /\ last.route \notin AuthRoutes =>
              IF last.user[1].mustChangePassword
                THEN LastResponse = RotationRequired /\ ~last.handler
              ELSE IF last.user[1].role \in RouteRoles(last.route)
                THEN last.handler
              ELSE LastResponse = Forbidden /\ ~last.handler

\* a token issued with the flag is refused by the rotation check after
\* the user has changed the password and the stored flag is false
C10_Witness ==
    /\ last.route \in ProtectedRoutes \ AuthRoutes
    /\ last.user # << >>
    /\ last.user[1].mustChangePassword
    /\ ~users[last.user[1].id].mustChangePassword
    /\ LastResponse = RotationRequired
    /\ ~last.handler

(***************************************************************************)
(* Role gating (SpecRoles).                                                *)
(***************************************************************************)

\* C11: a request enters the handler of a user route only with role ADMIN
\* in its token and the handler of a category, item, warehouse or stock
\* route only with role ADMIN, STOREKEEPER or PROCUREMENT; a request
\* without a valid token is answered 401 before the handler; a request
\* whose token names another role is answered before the handler with
\* Forbidden, or with PasswordRotationRequired when the token also carries
\* mustChangePassword, the rotation check being installed ahead of the role
\* check; no step that answers before the handler changes the store.
C11_RoleGating ==
    /\ [](/\ \A r \in Slots :
               req[r].route \in (ProtectedRoutes \ AuthRoutes)
                 => /\ req[r].user # << >>
                    /\ req[r].user[1].role \in RouteRoles(req[r].route)
          /\ last.route \in (ProtectedRoutes \ AuthRoutes) =>
               /\ last.handler
                    => /\ last.user # << >>
                       /\ last.user[1].role \in RouteRoles(last.route)
               /\ last.user = << >>
                    => ~last.handler /\ last.status = 401
               /\ (last.user # << >>
                     /\ last.user[1].role \notin RouteRoles(last.route))
                    => /\ ~last.handler
                       /\ LastResponse =
                            IF last.user[1].mustChangePassword
                              THEN RotationRequired ELSE Forbidden)
    /\ [][(last' # NoAnswer /\ ~last'.handler) => store' = store]_vars

\* a token that was rotated and names a role outside the allowed set of
\* the route has been answered Forbidden
C11_Witness ==
    /\ last.route \in (ProtectedRoutes \ AuthRoutes)
    /\ last.user # << >>
    /\ last.user[1].role \notin RouteRoles(last.route)
    /\ ~last.user[1].mustChangePassword
    /\ LastResponse = Forbidden

\* C11 as stated: every token with a role outside the allowed set is
\* answered Forbidden
C11_OtherRoleForbidden ==
    (/\ last.route \in (ProtectedRoutes \ AuthRoutes)
     /\ last.user # << >>
     /\ last.user[1].role \notin RouteRoles(last.route))
       => LastResponse = Forbidden

(***************************************************************************)
(* Login (SpecAuth).                                                       *)
(***************************************************************************)

\* the three causes of a failed login, read from the body of the answered
\* request and the user records at the time of the answer
UnknownEmail(body) == FindUserByEmail(body.email) = << >>

InactiveUser(body) ==
    /\ FindUserByEmail(body.email) # << >>
    /\ ~FindUserByEmail(body.email)[1].isActive

WrongPassword(body) ==
    /\ FindUserByEmail(body.email) # << >>
    /\ FindUserByEmail(body.email)[1].isActive
    /\ ~verifyPassword(body.password, FindUserByEmail(body.email)[1].password)

LoginAnswered ==
    /\ last.route = LoginRoute
    /\ last.body # NoBody
    /\ isValidEmail(last.body.email)

\* C12: a login with an unknown email, a login for an inactive user
\* (whatever the password, the correct one included) and a login with a
\* wrong password for an active user are all answered with the one
\* 401 "Invalid credentials." response, same status and same error body,
\* and with no token.
C12_LoginFailuresIdentical ==
    (/\ LoginAnswered
     /\ UnknownEmail(last.body) \/ InactiveUser(last.body)
          \/ WrongPassword(last.body))
       => /\ LastResponse = Respond(401, "Invalid credentials.")
          /\ last.token = << >>

\* the correct password of a deactivated user has been refused with
\* that response
C12_Witness ==
    /\ LoginAnswered
    /\ InactiveUser(last.body)
    /\ verifyPassword(last.body.password,
                      FindUserByEmail(last.body.email)[1].password)
    /\ LastResponse = Respond(401, "Invalid credentials.")

\* C13: a successful login has set the user's lastLoginAt and returns a
\* token whose role and mustChangePassword claims equal the values stored
\* for that user when the login is answered, also when a patch or a
\* change-password for the same user ran while the login was in flight; a
\* failed login carries no token.
C13_TokenMatchesStoredUser ==
    /\ (last.route = LoginRoute /\ last.status = 200) =>
          /\ last.token # << >>
          /\ users[last.token[1].sub].lastLoginAt # NoDate
          /\ last.token[1].role = users[last.token[1].sub].role
          /\ last.token[1].mustChangePassword
               = users[last.token[1].sub].mustChangePassword
    /\ (last.route = LoginRoute /\ last.status # 200) => last.token = << >>

(***************************************************************************)
(* Authentication failures (SpecAuth).                                     *)
(***************************************************************************)

\* C14: an authentication failure is answered identically whatever its
\* cause: the response to a refused request (status and error body) is the
\* response every other refused Authorization header gets, be the header
\* missing, malformed or a bearer token that does not verify, and it is a
\* 401 sent before the handler.
C14_AuthFailuresIdentical ==
    (/\ last.route \in ProtectedRoutes
     /\ last.guards = <<"authMiddleware">>
     /\ ~last.handler) =>
        /\ last.status = 401
        /\ last.user = << >>
        /\ \A hdr \in Headers :
              LET answered == authMiddleware(NewContext, hdr, now).resp
              IN answered # NoResponse => answered = LastResponse

(***************************************************************************)
(* change-password (SpecAuth).                                             *)
(***************************************************************************)
\* a change-password answered by its handler for an existing account
ChangePasswordAnswered ==
    /\ last.route = ChangePasswordRoute
    /\ last.handler
    /\ last.user[1].id \in DOMAIN users

ChangePasswordAccount == users[last.user[1].id]

\* C15 as stated: a change-password of an account whose canChangePassword
\* is false is answered 403 Forbidden, whatever else the request holds.
C15_ForbiddenFirst ==
    (ChangePasswordAnswered /\ ~ChangePasswordAccount.canChangePassword)
        => last.status = 403

\* C15: change-password decides in a fixed order: 400 if the current or
\* the new password is missing from the body; otherwise 403 if the account's
\* canChangePassword is false; otherwise 400 if the current password does
\* not verify against the stored digest; otherwise 400 with the violation
\* validatePasswordStrength names for the new password. A request that is
\* answered 200 passed all three, and the stored digest is then the hash of
\* its new password and mustChangePassword is false. No step that answers
\* a change-password with a rejection changes a user record, and a digest
\* or a rotation flag changes only in the step that answers a
\* change-password of that account with 200.
C15_ChangePasswordOrder ==
    /\ [](ChangePasswordAnswered =>
            /\ (last.body.currentPassword = << >> \/ last.body.newPassword = << >>)
                  <=> LastResponse =
                        Respond(400, "Current password and new password are required.")
            /\ (/\ last.body.currentPassword # << >>
                 /\ last.body.newPassword # << >>
                 /\ ~ChangePasswordAccount.canChangePassword)
                  => LastResponse =
                       Respond(403, "This account is not allowed to change password.")
            /\ (/\ last.status # 200
                 /\ last.body.currentPassword # << >>
                 /\ last.body.newPassword # << >>
                 /\ ChangePasswordAccount.canChangePassword)
                  => IF ~verifyPassword(last.body.currentPassword,
                                        ChangePasswordAccount.password)
                       THEN LastResponse =
                              Respond(400, "Current password is incorrect.")
                       ELSE /\ validatePasswordStrength(last.body.newPassword)
                                 # NoViolation
                            /\ LastResponse =
                                 Respond(400, validatePasswordStrength(
                                                  last.body.newPassword))
            /\ last.status = 200
                  => /\ ChangePasswordAccount.canChangePassword
                     /\ validatePasswordStrength(last.body.newPassword)
                          = NoViolation
                     /\ ChangePasswordAccount.password
                          = hashPassword(last.body.newPassword)
                     /\ ~ChangePasswordAccount.mustChangePassword)
    /\ [][/\ (last'.route = ChangePasswordRoute /\ last'.status # 200)
              => users' = users
          /\ \A id \in DOMAIN users :
                (\/ users'[id].password # users[id].password
                 \/ users'[id].mustChangePassword
                      # users[id].mustChangePassword)
                  => /\ last'.route = ChangePasswordRoute
                     /\ last'.status = 200
                     /\ last'.user[1].id = id]_vars

\* an account allowed to change its password gave its current password
\* and a new one that is too weak, and was answered with the violation
C15_Witness ==
    /\ ChangePasswordAnswered
    /\ ChangePasswordAccount.canChangePassword
    /\ verifyPassword(last.body.currentPassword,
                      ChangePasswordAccount.password)
    /\ last.status = 400
    /\ last.error = validatePasswordStrength(last.body.newPassword)

(***************************************************************************)
(* Unique keys (SpecCatalog).                                              *)
(***************************************************************************)
\* a create request answered by its handler
CreateAnswered(answer) ==
    /\ answer.route \in {"POST /api/users", "POST /api/items/categories",
                         "POST /api/items", "POST /api/warehouses"}
    /\ answer.handler

\* the unique key of the body of a create request is held by a row
KeyExists(route, body) ==
    CASE route = "POST /api/users" -> FindUserByEmail(body.email) # << >>
      [] route = "POST /api/items/categories" ->
           FindByKey(categories, "name", body.name) # << >>
      [] route = "POST /api/items" ->
           body.sku # "" /\ FindByKey(items, "sku", body.sku) # << >>
      [] route = "POST /api/warehouses" ->
           FindByKey(warehouses, "code", body.code) # << >>

\* the body passes the checks the handler makes before it looks the key up
ValidBody(route, body) ==
    CASE route = "POST /api/users" ->
           isValidEmail(body.email) /\ body.role \in ALLOWED_ROLES
      [] route = "POST /api/items/categories" -> body.name # ""
      [] route = "POST /api/items" ->
           /\ body.categoryId \in DOMAIN categories
           /\ categories[body.categoryId].isActive
      [] route = "POST /api/warehouses" -> body.code # ""

\* the step ends a request that was at its insert
InsertStep ==
    \E r \in Slots :
        /\ req[r].pc \in {"user_create", "category_create", "item_create",
                          "warehouse_create"}
        /\ req'[r].pc = "idle"

UniqueIn(table, key) ==
    \A a, b \in DOMAIN table : table[a][key] = table[b][key] => a = b

C17_RaceLoserGetsConflict ==
    CreateAnswered(last) =>
        /\ last.status \in {201, 400, 409}
        /\ last.status = 400 => ~ValidBody(last.route, last.body)

(***************************************************************************)
(* Error responses (SpecLedger).                                           *)
(***************************************************************************)

\* C18: no response carries internal error detail: a response to a request
\* in which the store failed is a 500 whose body is the generic message and
\* never the message of the underlying error, and every other failure is
\* reported with the status of one of the error kinds.
C18_NoInternalDetail ==
    last # NoAnswer =>
        /\ \A err \in {UniqueViolation, StoreFailure} : last.error # err.message
        /\ last.status = 500
             => last.error = errorHandler([message |-> "",
                                           statusCode |-> 0]).error
        /\ last.status \in {200, 201, 500} \cup {400, 401, 403, 404, 409}

(***************************************************************************)
(* The temporary-credential mail (SpecCatalog).                            *)
(***************************************************************************)

\* C19: a user creation whose row was inserted is answered 201 whether the
\* mail with the temporary password was sent, failed or was skipped, and
\* the row of the new user is stored, active, with mustChangePassword and
\* canChangePassword true and with the digest of a temporary password; the
\* step that tried the mail added exactly that row.
C19_MailBestEffort ==
    /\ []((last.route = "POST /api/users" /\ last.mail \in MailOutcomes) =>
            /\ last.status = 201
            /\ FindUserByEmail(last.body.email) # << >>
            /\ LET user == FindUserByEmail(last.body.email)[1]
               IN /\ user.isActive
                  /\ user.mustChangePassword
                  /\ user.canChangePassword
                  /\ user.role = last.body.role
                  /\ \E p \in generateTempPassword(TEMP_PASSWORD_LENGTH) :
                        user.password = hashPassword(p))
    /\ [][last'.mail \in MailOutcomes =>
            /\ Cardinality(DOMAIN users') = Cardinality(DOMAIN users) + 1
            /\ \A id \in DOMAIN users : users'[id] = users[id]]_vars

\* a user creation whose mail failed has been answered 201 and its row is
\* stored
C19_Witness ==
    /\ last.route = "POST /api/users"
    /\ last.mail \in MailOutcomes
    /\ last.mail = "failed"
    /\ last.status = 201
    /\ FindUserByEmail(last.body.email) # << >>

(***************************************************************************)
(* The temporary password (SpecTempFair).                                  *)
(***************************************************************************)
\* the call has returned a password of the requested length that the
\* strength rules accept
TempReturned(r) ==
    /\ req[r].pc = "temp_returned"
    /\ Len(req[r].local[1]) = req[r].body.length
    /\ validatePasswordStrength(req[r].local[1]) = NoViolation

C21_StrengthRules ==
    /\ [](\A r \in Slots : req[r].pc = "strength_returned" =>
            LET password == req[r].body.password
                result == req[r].local[1]
                rules == << Len(password) >= 8,
                            \E i \in 1..Len(password) :
                               password[i] \in UpperChars,
                            \E i \in 1..Len(password) :
                               password[i] \in LowerChars,
                            \E i \in 1..Len(password) :
                               password[i] \in DigitChars,
                            \E i \in 1..Len(password) :
                               password[i] \in SpecialChars >>
                violations ==
                  << "Password must be at least 8 characters long.",
                     "Password must contain at least one uppercase letter.",
                     "Password must contain at least one lowercase letter.",
                     "Password must contain at least one digit.",
                     "Password must contain at least one special character." >>
            IN /\ result = NoViolation <=> \A i \in 1..5 : rules[i]
               /\ \A i \in 1..5 :
                     (~rules[i] /\ \A j \in 1..(i - 1) : rules[j])
                       => result = violations[i])
    /\ [][(\E r \in Slots : req[r].pc = "strength_check")
            => UNCHANGED <<store, issued, now, last, nreq, faults>>]_vars

\* a password of eight characters with an uppercase letter, a lowercase
\* letter, a digit and underscores has been refused for want of a special
\* character
C21_Witness ==
    \E r \in Slots :
        /\ req[r].pc = "strength_returned"
        /\ Len(req[r].body.password) = 8
        /\ req[r].local[1]
             = "Password must contain at least one special character."

(***************************************************************************)
(* The fields of a user each operation writes (SpecAuth).                  *)
(***************************************************************************)
PatchRoute == "PATCH /api/users/:id"

\* C22: no step deletes a user record; no step changes the email of a
\* user or sets mustChangePassword from false back to true; a step writes
\* user records only while answering a login, a change-password, a patch
\* or a creation, and then: a login changes only lastLoginAt of the user
\* of its token, a change-password only the digest and mustChangePassword
\* of its account, a patch only role, department and isActive of its
\* target, and of these only the ones its body supplies, and nothing when
\* it is rejected; a creation changes no record that existed.
C22_UserFrame ==
    [][LET Changed(id) == { f \in DOMAIN users[id] :
                              users'[id][f] # users[id][f] }
           Written == { id \in DOMAIN users : Changed(id) # {} }
       IN /\ DOMAIN users \subseteq DOMAIN users'
          /\ \A id \in DOMAIN users :
                /\ "email" \notin Changed(id)
                /\ users'[id].mustChangePassword => users[id].mustChangePassword
          /\ Written # {} =>
                /\ last' # NoAnswer
                /\ last'.status = 200
                /\ last'.route \in {LoginRoute, ChangePasswordRoute, PatchRoute}
                /\ last'.route = LoginRoute =>
                      /\ Written = {last'.token[1].sub}
                      /\ Changed(last'.token[1].sub) = {"lastLoginAt"}
                /\ last'.route = ChangePasswordRoute =>
                      /\ Written = {last'.user[1].id}
                      /\ Changed(last'.user[1].id)
                           \subseteq {"password", "mustChangePassword"}
                /\ last'.route = PatchRoute =>
                      /\ Written = {last'.body.id}
                      /\ Changed(last'.body.id)
                           \subseteq { f \in {"role", "department", "isActive"} :
                                         last'.body[f] # << >> }
                      /\ last'.body.role # << >>
                           => last'.body.role[1] \in ALLOWED_ROLES]_vars

\* a patch has changed the role of a user who had logged in: the record
\* keeps its email, its digest and its lastLoginAt
C22_Witness ==
    /\ last.route = PatchRoute
    /\ last.status = 200
    /\ last.body.role # << >>
    /\ users[last.body.id].role = last.body.role[1]
    /\ users[last.body.id].role # SeedAdmin.role
    /\ users[last.body.id].email = SeedAdmin.email
    /\ users[last.body.id].password = SeedAdmin.password
    /\ users[last.body.id].lastLoginAt # NoDate

SeededAdmins == {id \in DOMAIN users : users[id].email = AdminEmail}

\* C24 as stated: canChangePassword is as creation set it, and every
\* change-password request of the seeded administrator that reaches the
\* handler is answered 403 Forbidden and leaves the digest as seeded.
C24_SeededAdminAlwaysForbidden ==
    /\ \A id \in DOMAIN users :
          users[id].canChangePassword = (id \notin SeededAdmins)
    /\ \A admin \in SeededAdmins :
          users[admin].password = hashPassword(AdminPassword)
    /\ (/\ ChangePasswordAnswered
         /\ last.user[1].id \in SeededAdmins) => last.status = 403

\* C24: no step changes the canChangePassword of a user or deletes a user;
\* a created user has it true and the seeded administrator false; a run of
\* the seed with a user of the administrator's email present changes
\* nothing, and a run that inserts adds one row, the administrator, with
\* canChangePassword false; the digest of the seeded administrator never
\* changes; and a change-password request of the seeded administrator that
\* reaches the handler is answered 400 when the current or the new
\* password is missing from the body and 403 Forbidden otherwise.
C24_LockoutFixedAtCreation ==
    /\ [](/\ \A id \in DOMAIN users :
                 users[id].canChangePassword = (id \notin SeededAdmins)
           /\ \A admin \in SeededAdmins :
                 users[admin].password = hashPassword(AdminPassword)
           /\ Cardinality(SeededAdmins) <= 1
           /\ (ChangePasswordAnswered /\ last.user[1].id \in SeededAdmins) =>
                 LastResponse =
                   IF \/ last.body.currentPassword = << >>
                      \/ last.body.newPassword = << >>
                     THEN Respond(400, "Current password and new password are required.")
                     ELSE Respond(403, "This account is not allowed to change password."))
    /\ [][/\ \A id \in DOMAIN users :
                /\ id \in DOMAIN users'
                /\ users'[id].canChangePassword = users[id].canChangePassword
          /\ (\E r \in Slots : req[r].pc = "seed_create" /\ req'[r].pc = "idle")
                => IF SeededAdmins # {}
                     THEN /\ store' = store
                          /\ last'.status = 1
                     ELSE /\ last'.status = 0
                          /\ \E id \in DOMAIN users' \ DOMAIN users :
                                /\ DOMAIN users' = DOMAIN users \cup {id}
                                /\ users'[id] = [SeedAdmin EXCEPT !.id = id]
          /\ (last'.route = "prisma/seed.ts" /\ last'.status = 0
                /\ SeededAdmins # {})
                => store' = store]_vars

\* the seeded administrator, holding a session, asked to change the
\* seeded password to a strong one and was refused with 403, a user it had
\* created being present
C24_Witness ==
    /\ ChangePasswordAnswered
    /\ last.user[1].id \in SeededAdmins
    /\ last.body.currentPassword = AdminPassword
    /\ last.body.newPassword = NewPassword
    /\ last.status = 403
    /\ \E id \in DOMAIN users : users[id].canChangePassword

====
